---- MODULE Spec2Model ----
(***************************************************************************)
(* Model of xudd/hive.py: the Hive (dispatcher thread), its HiveWorker     *)
(* threads, the per-actor ActorMessageQueue (queue + lock), the actor      *)
(* registry and the HiveProxy calls an actor handler can make.             *)
(*                                                                         *)
(* Threads: the hive thread ("hive"), the worker threads (Workers) and one *)
(* outside caller thread ("main").  A step of a thread is one operation on *)
(* shared state (a Queue operation, a registry access, a flag read or      *)
(* write, entering or leaving a handler).  A "with lock:" block that does  *)
(* one Queue operation is one step that needs the lock to be free; the     *)
(* block of queue_message, which does two, holds the lock between them.    *)
(***************************************************************************)
EXTENDS Integers, Sequences, FiniteSets, TLC

\* ------------------------------------------------------------------ bounds
MaxSends == 2          \* send_message calls per run, specification Spec
MaxExtra == 1          \* per run: calls made from handlers, remove_actor calls,
                       \* handler exceptions, setting of Hive.should_stop
MaxSlice == 2          \* largest finite max_messages explored
MaxFairSends == 3      \* send_message calls per run, specification SpecSched
MaxLiveSends == 2      \* send_message calls per run, the fair specifications

Actors  == {"a1", "a2"}
Workers == {"w1", "w2"}
Main == "main"
HiveThread == "hive"
Callers == Workers \cup {Main}

None == "None"

\* max_messages = None (drain to empty) is written as this number
Unbounded == -1

\* value sets of HiveWorker.max_messages
MaxMessagesChoices == {Unbounded} \cup (1..MaxSlice)

VARIABLES
    registry,          \* Hive.__actor_registry (its key set)
    created,           \* actor ids handed out so far by create_actor
    mailbox,           \* actor.message_queue.queue, per actor
    lock,              \* actor.message_queue.lock: None or the holding thread
    actor_queue,       \* Hive.__actor_queue
    hive_action_queue, \* Hive.hive_action_queue
    hive_should_stop,  \* Hive.should_stop
    message_counter,   \* Hive.message_counter (next value of count())
    hivePc,            \* position of the hive thread
    hiveAction,        \* local "action" of Hive.workloop
    pc,                \* position of each worker thread
    wActor,            \* local "actor" of process_actor
    wMsg,              \* local "message" of process_actor
    messages_processed,\* local "messages_processed" of process_actor
    should_stop,       \* HiveWorker.should_stop, per worker
    max_messages,      \* HiveWorker.max_messages
    pending,           \* per calling thread: Message built by send_message, not yet put
    \* the environment of this run
    sendsAllowed,      \* number of send_message calls made in this run
    extrasLeft,        \* see MaxExtra
    \* history variables (not program state)
    handled,           \* messages for which handle_message has been invoked
    droppedLog,        \* messages dropped by queue_message, with the lookup result
    registryWriter,    \* the thread that wrote the registry last
    wEntry,            \* the actor_queue entry taken for the current slice
    sliceEnd           \* why the current slice left its while loop

vars == <<registry, created, mailbox, lock, actor_queue, hive_action_queue,
          hive_should_stop, message_counter, hivePc, hiveAction, pc, wActor,
          wMsg, messages_processed, should_stop, max_messages, pending,
          sendsAllowed, extrasLeft,
          handled, droppedLog, registryWriter, wEntry, sliceEnd>>

\* ------------------------------------------------------------- data values
\* xudd.message.Message as far as the hive depends on it; "by" records the
\* calling thread (history only).
Message(to, from_id, id, by) ==
    [id |-> id, to |-> to, from_id |-> from_id, by |-> by]

NoMsg == [id |-> -1, to |-> None, from_id |-> None, by |-> None]

\* ("queue_message", message) and ("check_queue_actor", actor)
QueueMessageAction(m) == [type |-> "queue_message", msg |-> m, actor |-> None]
CheckQueueActorAction(a) == [type |-> "check_queue_actor", msg |-> NoMsg, actor |-> a]
NoAction == [type |-> None, msg |-> NoMsg, actor |-> None]

\* an action whose tag workloop does not know
UnknownAction == [type |-> "unknown", msg |-> NoMsg, actor |-> None]

\* an actor_queue entry: the actor, plus (history) the operation that put
\* it and its slack: the number of entries that were ahead of it when it
\* was put, minus the number of slices started (entries taken) since then
Entry(a, q, via) == [actor |-> a, via |-> via, slack |-> Len(q)]
NoEntry == [actor |-> None, via |-> None, slack |-> 0, backlogged |-> FALSE]

\* what a worker records of the entry it takes (history): the entry, and
\* whether the slice starts on a backlog (see Backlogged)
TakenEntry(e, backlogged) ==
    [actor |-> e.actor, via |-> e.via, slack |-> e.slack,
     backlogged |-> backlogged]

\* queue_actor putting the actor at the head of the queue (C7 fails with it)
queue_actor_front(q, a, via) == <<Entry(a, q, via)>> \o q

\* queue_actor that puts nothing (C4 fails with it)
queue_actor_forget(q, a, via) == q

\* Hive.queue_actor: self.__actor_queue.put(actor)
queue_actor(q, a, via) == Append(q, Entry(a, q, via))

\* ------------------------------------------------------------------- Init
\* Hive.__init__, and the workers as HiveWorker.__init__ leaves them
Construct ==
    /\ registry = {}
    /\ created = {}
    /\ mailbox = [a \in Actors |-> <<>>]
    /\ lock = [a \in Actors |-> None]
    /\ actor_queue = <<>>
    /\ hive_action_queue = <<>>
    /\ hive_should_stop = FALSE
    /\ message_counter = 0
    /\ hivePc = "new"
    /\ hiveAction = NoAction
    /\ pc = [w \in Workers |-> "new"]
    /\ wActor = [w \in Workers |-> None]
    /\ wMsg = [w \in Workers |-> NoMsg]
    /\ messages_processed = [w \in Workers |-> 0]
    /\ should_stop = [w \in Workers |-> FALSE]
    /\ max_messages \in MaxMessagesChoices
    /\ pending = [t \in Callers |-> NoMsg]
    /\ handled = {}
    /\ droppedLog = {}
    /\ registryWriter = None
    /\ wEntry = [w \in Workers |-> NoEntry]
    /\ sliceEnd = [w \in Workers |-> None]

Init ==
    /\ Construct
    /\ sendsAllowed = MaxSends
    /\ extrasLeft = MaxExtra

\* ------------------------------------------------- calls made by any thread
\* A thread can call into the hive when it is the outside caller, or a
\* worker that is inside actor.handle_message (calls go through HiveProxy).
CanCall(t) ==
    /\ pending[t] = NoMsg
    /\ \/ t = Main
       \/ t \in Workers /\ pc[t] = "handling" /\ extrasLeft > 0

\* a call from a handler counts against extrasLeft
AfterCall(t, n) == IF t \in Workers THEN n - 1 ELSE n

\* HiveProxy.send_message: from_id = from_id or self.__actor.id
ProxyFromId(t) == IF t \in Workers THEN wActor[t] ELSE None

\* Hive.message_uuid: unicode(uuid.uuid4()), made once in __init__
message_uuid == "uuid4"

\* the id string u"%s:%s" % (self.message_uuid, n), as its two components
MessageId(n) == <<message_uuid, n>>

\* an id made from a stale value of the counter (C11 fails with it)
gen_message_id_stale(counter) == IF counter = 0 THEN 0 ELSE counter - 1

\* Hive.gen_message_id: the value of message_counter.next().  A Message of
\* the model keeps this counter component as its id; the id string handed to
\* the caller is MessageId of it.
gen_message_id(counter) == counter

\* Hive.send_message up to the construction of the Message
\* (id is not supplied: message_id = self.gen_message_id())
SendMessage(t, to) ==
    /\ CanCall(t)
    /\ message_counter < sendsAllowed
    /\ pending' = [pending EXCEPT
                     ![t] = Message(to, ProxyFromId(t), gen_message_id(message_counter), t)]
    /\ message_counter' = message_counter + 1
    /\ extrasLeft' = AfterCall(t, extrasLeft)
    /\ UNCHANGED <<registry, created, mailbox, lock, actor_queue,
                   hive_action_queue, hive_should_stop, hivePc, hiveAction, pc,
                   wActor, wMsg, messages_processed, should_stop, max_messages,
                   sendsAllowed, handled, droppedLog, registryWriter, wEntry,
                   sliceEnd>>

\* Hive.send_message: self.hive_action_queue.put(("queue_message", message))
SendMessagePut(t) ==
    /\ pending[t] # NoMsg
    /\ hive_action_queue' = Append(hive_action_queue, QueueMessageAction(pending[t]))
    /\ pending' = [pending EXCEPT ![t] = NoMsg]
    /\ UNCHANGED <<registry, created, mailbox, lock, actor_queue, hive_should_stop,
                   message_counter, hivePc, hiveAction, pc, wActor, wMsg,
                   messages_processed, should_stop, max_messages, sendsAllowed,
                   extrasLeft, handled, droppedLog, registryWriter, wEntry,
                   sliceEnd>>

\* Hive.register_actor
register_actor(reg, a) == reg \cup {a}

\* Hive.create_actor (gen_actor_id gives an id never used before)
CreateActor(t, a) ==
    /\ CanCall(t)
    /\ a \notin created
    /\ created' = created \cup {a}
    /\ registry' = register_actor(registry, a)
    /\ registryWriter' = t
    /\ extrasLeft' = AfterCall(t, extrasLeft)
    /\ UNCHANGED <<mailbox, lock, actor_queue, hive_action_queue, hive_should_stop,
                   message_counter, hivePc, hiveAction, pc, wActor, wMsg,
                   messages_processed, should_stop, max_messages, pending,
                   sendsAllowed, handled, droppedLog, wEntry, sliceEnd>>

\* Hive.remove_actor: self.__actor_registry.pop(actor_id)
remove_actor(reg, a) == reg \ {a}

\* a remove_actor that also empties the actor's mailbox (C20 fails with it)
RemoveActorPurge(t, a) ==
    /\ CanCall(t)
    /\ extrasLeft > 0
    /\ extrasLeft' = extrasLeft - 1
    /\ a \in registry
    /\ registry' = remove_actor(registry, a)
    /\ registryWriter' = t
    /\ mailbox' = [mailbox EXCEPT ![a] = <<>>]
    /\ UNCHANGED <<created, lock, actor_queue, hive_action_queue, hive_should_stop,
                   message_counter, hivePc, hiveAction, pc, wActor, wMsg,
                   messages_processed, should_stop, max_messages, pending,
                   sendsAllowed, handled, droppedLog, wEntry, sliceEnd>>

\* Hive.remove_actor; KeyError when the id is not registered, which in a
\* handler leaves the worker's run()
RemoveActor(t, a) ==
    /\ CanCall(t)
    /\ extrasLeft > 0
    /\ extrasLeft' = extrasLeft - 1
    /\ \/ /\ a \in registry
          /\ registry' = remove_actor(registry, a)
          /\ registryWriter' = t
          /\ pc' = pc
       \/ /\ a \notin registry
          /\ t \in Workers
          /\ pc' = [pc EXCEPT ![t] = "dead"]
          /\ UNCHANGED <<registry, registryWriter>>
    /\ UNCHANGED <<created, mailbox, lock, actor_queue, hive_action_queue,
                   hive_should_stop, message_counter, hivePc, hiveAction, wActor,
                   wMsg, messages_processed, should_stop, max_messages, pending,
                   sendsAllowed, handled, droppedLog, wEntry, sliceEnd>>

\* the outside caller sets hive.should_stop = True
SetShouldStop ==
    /\ ~hive_should_stop
    /\ extrasLeft > 0
    /\ extrasLeft' = extrasLeft - 1
    /\ hive_should_stop' = TRUE
    /\ UNCHANGED <<registry, created, mailbox, lock, actor_queue,
                   hive_action_queue, message_counter, hivePc, hiveAction, pc,
                   wActor, wMsg, messages_processed, should_stop, max_messages,
                   pending, sendsAllowed, handled, droppedLog, registryWriter,
                   wEntry, sliceEnd>>

\* client code puts an action with an unrecognised tag on the public
\* attribute hive.hive_action_queue
PutUnknownAction ==
    /\ extrasLeft > 0
    /\ extrasLeft' = extrasLeft - 1
    /\ hive_action_queue' = Append(hive_action_queue, UnknownAction)
    /\ UNCHANGED <<registry, created, mailbox, lock, actor_queue, hive_should_stop,
                   message_counter, hivePc, hiveAction, pc, wActor, wMsg,
                   messages_processed, should_stop, max_messages, pending,
                   sendsAllowed, handled, droppedLog, registryWriter, wEntry,
                   sliceEnd>>

\* ----------------------------------------------------------- the hive thread
\* Hive.run -> __init_and_start_workers: every worker thread is started
HiveStart ==
    /\ hivePc = "new"
    /\ pc' = [w \in Workers |-> "idle"]
    /\ hivePc' = "loop"
    /\ UNCHANGED <<registry, created, mailbox, lock, actor_queue,
                   hive_action_queue, hive_should_stop, message_counter,
                   hiveAction, wActor, wMsg, messages_processed, should_stop,
                   max_messages, pending, sendsAllowed, extrasLeft, handled,
                   droppedLog, registryWriter, wEntry, sliceEnd>>

\* stop_workers that sets no flag (C10 fails with it)
stop_workers_none(flags) == flags

\* Hive.stop_workers
stop_workers(flags) == [w \in DOMAIN flags |-> TRUE]

\* Hive.workloop: "while not self.should_stop"; when the loop is left,
\* run()'s finally clause calls stop_workers and the thread ends
HiveLoop ==
    /\ hivePc = "loop"
    /\ IF hive_should_stop
          THEN /\ should_stop' = stop_workers(should_stop)
               /\ hivePc' = "done"
          ELSE /\ hivePc' = "get"
               /\ UNCHANGED should_stop
    /\ UNCHANGED <<registry, created, mailbox, lock, actor_queue,
                   hive_action_queue, hive_should_stop, message_counter,
                   hiveAction, pc, wActor, wMsg, messages_processed, max_messages,
                   pending, sendsAllowed, extrasLeft, handled, droppedLog,
                   registryWriter, wEntry, sliceEnd>>

\* a workloop that treats every unrecognised action as a "queue_message"
\* (C17 fails with it)
DispatchLenient(action_type) ==
    IF action_type = "check_queue_actor" THEN "check" ELSE "route"

\* where workloop goes for an action type: the if / elif / else on action[0]
Dispatch(action_type) ==
    IF action_type = "check_queue_actor" THEN "check"
    ELSE IF action_type = "queue_message" THEN "route"
    ELSE "raise"

\* Hive.workloop: action = self.hive_action_queue.get(block=True, timeout=1)
HiveGet ==
    /\ hivePc = "get"
    /\ hive_action_queue # <<>>
    /\ hiveAction' = Head(hive_action_queue)
    /\ hive_action_queue' = Tail(hive_action_queue)
    /\ hivePc' = Dispatch(Head(hive_action_queue).type)
    /\ UNCHANGED <<registry, created, mailbox, lock, actor_queue, hive_should_stop,
                   message_counter, pc, wActor, wMsg, messages_processed,
                   should_stop, max_messages, pending, sendsAllowed, extrasLeft,
                   handled, droppedLog, registryWriter, wEntry, sliceEnd>>

\* Hive.workloop: except Empty: continue.  A timeout while should_stop is
\* unset only leads back to the same get(), so it is a step only when the
\* flag is set.
HiveTimeout ==
    /\ hivePc = "get"
    /\ hive_action_queue = <<>>
    /\ hive_should_stop
    /\ hivePc' = "loop"
    /\ UNCHANGED <<registry, created, mailbox, lock, actor_queue,
                   hive_action_queue, hive_should_stop, message_counter,
                   hiveAction, pc, wActor, wMsg, messages_processed, should_stop,
                   max_messages, pending, sendsAllowed, extrasLeft, handled,
                   droppedLog, registryWriter, wEntry, sliceEnd>>

\* Hive.workloop: raise UnknownHiveAction(...).  Nothing in workloop or run
\* handles it: run's finally clause calls stop_workers and the thread ends
\* with the exception.
HiveUnknownAction ==
    /\ hivePc = "raise"
    /\ should_stop' = stop_workers(should_stop)
    /\ hivePc' = "raised"
    /\ UNCHANGED <<registry, created, mailbox, lock, actor_queue,
                   hive_action_queue, hive_should_stop, message_counter,
                   hiveAction, pc, wActor, wMsg, messages_processed, max_messages,
                   pending, sendsAllowed, extrasLeft, handled, droppedLog,
                   registryWriter, wEntry, sliceEnd>>

\* a lookup that never fails (C5 fails with it)
RegistryLookupAlways(reg, to) == TRUE

\* Hive.queue_message: actor = self.__actor_registry[message.to] succeeds
RegistryLookup(reg, to) == to \in reg

\* queue_message taking the actor out of the registry with pop() instead of
\* reading it (C9 fails with it)
HiveLookupPop ==
    /\ hivePc = "route"
    /\ IF RegistryLookup(registry, hiveAction.msg.to)
          THEN /\ hivePc' = "route_lock"
               /\ registry' = registry \ {hiveAction.msg.to}
               /\ registryWriter' = HiveThread
               /\ UNCHANGED <<hiveAction, droppedLog>>
          ELSE /\ hivePc' = "loop"
               /\ hiveAction' = NoAction
               /\ droppedLog' = droppedLog \cup
                      {[msg |-> hiveAction.msg,
                        registered |-> hiveAction.msg.to \in registry]}
               /\ UNCHANGED <<registry, registryWriter>>
    /\ UNCHANGED <<created, mailbox, lock, actor_queue, hive_action_queue,
                   hive_should_stop, message_counter, pc, wActor, wMsg,
                   messages_processed, should_stop, max_messages, pending,
                   sendsAllowed, extrasLeft, handled, wEntry, sliceEnd>>

\* Hive.queue_message: the registry lookup; on KeyError the message is
\* dropped (print, return False) and workloop goes on
HiveLookup ==
    /\ hivePc = "route"
    /\ IF RegistryLookup(registry, hiveAction.msg.to)
          THEN /\ hivePc' = "route_lock"
               /\ UNCHANGED <<hiveAction, droppedLog>>
          ELSE /\ hivePc' = "loop"
               /\ hiveAction' = NoAction
               /\ droppedLog' = droppedLog \cup
                      {[msg |-> hiveAction.msg,
                        registered |-> hiveAction.msg.to \in registry]}
    /\ UNCHANGED <<registry, created, mailbox, lock, actor_queue,
                   hive_action_queue, hive_should_stop, message_counter, pc,
                   wActor, wMsg, messages_processed, should_stop, max_messages,
                   pending, sendsAllowed, extrasLeft, handled, registryWriter,
                   wEntry, sliceEnd>>

\* an acquire that does not wait for the holder (C15 fails with it)
CanAcquireAlways(l) == TRUE

\* Lock.acquire returns: the lock is not held
CanAcquire(l) == l = None

\* a put at the head of the mailbox (C14 fails with it)
MailboxPutFront(q, m) == <<m>> \o q

\* Queue.put on a mailbox
MailboxPut(q, m) == Append(q, m)

\* Hive.queue_message: with actor.message_queue.lock:
\*                         actor.message_queue.queue.put(message)
HiveRoutePut ==
    /\ hivePc = "route_lock"
    /\ CanAcquire(lock[hiveAction.msg.to])
    /\ lock' = [lock EXCEPT ![hiveAction.msg.to] = HiveThread]
    /\ mailbox' = [mailbox EXCEPT
                     ![hiveAction.msg.to] = MailboxPut(@, hiveAction.msg)]
    /\ hivePc' = "route_queue"
    /\ UNCHANGED <<registry, created, actor_queue, hive_action_queue,
                   hive_should_stop, message_counter, hiveAction, pc, wActor, wMsg,
                   messages_processed, should_stop, max_messages, pending,
                   sendsAllowed, extrasLeft, handled, droppedLog, registryWriter,
                   wEntry, sliceEnd>>

\* queue_message without its queue_actor call (C19 fails with it)
HiveRouteNoQueueActor ==
    /\ hivePc = "route_queue"
    /\ lock' = [lock EXCEPT ![hiveAction.msg.to] = None]
    /\ hivePc' = "loop"
    /\ hiveAction' = NoAction
    /\ UNCHANGED <<registry, created, mailbox, actor_queue, hive_action_queue,
                   hive_should_stop, message_counter, pc, wActor, wMsg,
                   messages_processed, should_stop, max_messages, pending,
                   sendsAllowed, extrasLeft, handled, droppedLog, registryWriter,
                   wEntry, sliceEnd>>

\* Hive.queue_message: self.queue_actor(actor), then the lock is released
HiveRouteQueueActor ==
    /\ hivePc = "route_queue"
    /\ actor_queue' = queue_actor(actor_queue, hiveAction.msg.to, "queue_message")
    /\ lock' = [lock EXCEPT ![hiveAction.msg.to] = None]
    /\ hivePc' = "loop"
    /\ hiveAction' = NoAction
    /\ UNCHANGED <<registry, created, mailbox, hive_action_queue, hive_should_stop,
                   message_counter, pc, wActor, wMsg, messages_processed,
                   should_stop, max_messages, pending, sendsAllowed, extrasLeft,
                   handled, droppedLog, registryWriter, wEntry, sliceEnd>>

\* a check that requeues whatever the mailbox holds (C6 fails with it)
ShouldRequeueAlways(q) == TRUE

\* Hive.workloop: "if not actor.message_queue.queue.empty()"
ShouldRequeue(q) == q # <<>>

\* Hive.workloop, "check_queue_actor": with the actor's lock held, requeue
\* the actor if its mailbox is not empty.  The lock is taken and released
\* within the step.
HiveCheckRequeue ==
    /\ hivePc = "check"
    /\ CanAcquire(lock[hiveAction.actor])
    /\ actor_queue' = IF ShouldRequeue(mailbox[hiveAction.actor])
                         THEN queue_actor(actor_queue, hiveAction.actor, "check_queue_actor")
                         ELSE actor_queue
    /\ hivePc' = "loop"
    /\ hiveAction' = NoAction
    /\ UNCHANGED <<registry, created, mailbox, lock, hive_action_queue,
                   hive_should_stop, message_counter, pc, wActor, wMsg,
                   messages_processed, should_stop, max_messages, pending,
                   sendsAllowed, extrasLeft, handled, droppedLog, registryWriter,
                   wEntry, sliceEnd>>

\* -------------------------------------------------------- the worker threads
\* HiveWorker.run: "while not self.should_stop"
WorkerLoop(w) ==
    /\ pc[w] = "idle"
    /\ pc' = [pc EXCEPT ![w] = IF should_stop[w] THEN "stopped" ELSE "get"]
    /\ UNCHANGED <<registry, created, mailbox, lock, actor_queue,
                   hive_action_queue, hive_should_stop, message_counter, hivePc,
                   hiveAction, wActor, wMsg, messages_processed, should_stop,
                   max_messages, pending, sendsAllowed, extrasLeft, handled,
                   droppedLog, registryWriter, wEntry, sliceEnd>>

\* no more message will arrive in a mailbox: every send_message of the run
\* has been made and none of the messages is on its way (history only)
Settled ==
    /\ message_counter = sendsAllowed
    /\ \A t \in Callers : pending[t] = NoMsg
    /\ \A k \in 1..Len(hive_action_queue) : hive_action_queue[k].type # "queue_message"
    /\ hivePc \notin {"route", "route_lock"}

\* actor a has more than max_messages messages in its mailbox and no
\* further message will arrive (history only)
Backlogged(a) ==
    /\ Settled
    /\ max_messages # Unbounded
    /\ Len(mailbox[a]) > max_messages

\* the while condition with <= for < (C8 fails with it)
SliceContinuesOffByOne(processed, max) == max = Unbounded \/ processed <= max

\* process_actor: "while self.max_messages is None
\*                  or messages_processed < self.max_messages"
SliceContinues(processed, max) == max = Unbounded \/ processed < max

\* Queue.get on the actor queue: the entry taken and what is left (one more
\* slice has started, so the slack of every entry left goes down by one)
QueueActorGet(q) ==
    [entry |-> Head(q),
     rest |-> [i \in 1..(Len(q) - 1) |-> [q[i + 1] EXCEPT !.slack = @ - 1]]]

\* process_actor: actor = self.actor_queue.get(block=True, timeout=...)
WorkerGet(w) ==
    /\ pc[w] = "get"
    /\ actor_queue # <<>>
    /\ actor_queue' = QueueActorGet(actor_queue).rest
    /\ wActor' = [wActor EXCEPT ![w] = QueueActorGet(actor_queue).entry.actor]
    /\ wEntry' = [wEntry EXCEPT ![w] =
                    TakenEntry(QueueActorGet(actor_queue).entry,
                               Backlogged(QueueActorGet(actor_queue).entry.actor))]
    /\ messages_processed' = [messages_processed EXCEPT ![w] = 0]
    /\ pc' = [pc EXCEPT ![w] = IF SliceContinues(0, max_messages)
                                  THEN "slice" ELSE "post"]
    /\ UNCHANGED <<registry, created, mailbox, lock, hive_action_queue,
                   hive_should_stop, message_counter, hivePc, hiveAction, wMsg,
                   should_stop, max_messages, pending, sendsAllowed, extrasLeft,
                   handled, droppedLog, registryWriter, sliceEnd>>

\* process_actor: except Empty: return False.  A timeout while should_stop
\* is unset only leads back to the same get(), so it is a step only when
\* the flag is set.
WorkerTimeout(w) ==
    /\ pc[w] = "get"
    /\ actor_queue = <<>>
    /\ should_stop[w]
    /\ pc' = [pc EXCEPT ![w] = "idle"]
    /\ UNCHANGED <<registry, created, mailbox, lock, actor_queue,
                   hive_action_queue, hive_should_stop, message_counter, hivePc,
                   hiveAction, wActor, wMsg, messages_processed, should_stop,
                   max_messages, pending, sendsAllowed, extrasLeft, handled,
                   droppedLog, registryWriter, wEntry, sliceEnd>>

\* a get that leaves the message in the mailbox (C3 fails with it)
MailboxGetKeep(q) == [msg |-> Head(q), rest |-> q]

\* Queue.get(block=False) on a mailbox that is not empty
MailboxGet(q) == [msg |-> Head(q), rest |-> Tail(q)]

\* process_actor: with actor.message_queue.lock:
\*                    message = actor.message_queue.queue.get(block=False)
\* or break on Empty.  The lock is taken and released within the step.
WorkerPop(w) ==
    /\ pc[w] = "slice"
    /\ CanAcquire(lock[wActor[w]])
    /\ IF mailbox[wActor[w]] = <<>>
          THEN /\ pc' = [pc EXCEPT ![w] = "post"]
               /\ sliceEnd' = [sliceEnd EXCEPT ![w] = "empty"]
               /\ UNCHANGED <<mailbox, wMsg>>
          ELSE /\ wMsg' = [wMsg EXCEPT ![w] = MailboxGet(mailbox[wActor[w]]).msg]
               /\ mailbox' = [mailbox EXCEPT
                                ![wActor[w]] = MailboxGet(mailbox[wActor[w]]).rest]
               /\ pc' = [pc EXCEPT ![w] = "popped"]
               /\ UNCHANGED sliceEnd
    /\ UNCHANGED <<registry, created, lock, actor_queue, hive_action_queue,
                   hive_should_stop, message_counter, hivePc, hiveAction, wActor,
                   messages_processed, should_stop, max_messages, pending,
                   sendsAllowed, extrasLeft, handled, droppedLog, registryWriter,
                   wEntry>>

\* process_actor: actor.handle_message(message) is entered
WorkerInvoke(w) ==
    /\ pc[w] = "popped"
    /\ pc' = [pc EXCEPT ![w] = "handling"]
    /\ handled' = handled \cup {wMsg[w]}
    /\ UNCHANGED <<registry, created, mailbox, lock, actor_queue,
                   hive_action_queue, hive_should_stop, message_counter, hivePc,
                   hiveAction, wActor, wMsg, messages_processed, should_stop,
                   max_messages, pending, sendsAllowed, extrasLeft, droppedLog,
                   registryWriter, wEntry, sliceEnd>>

\* process_actor: handle_message returns; messages_processed += 1 and the
\* while condition is evaluated again
HandlerReturn(w) ==
    /\ pc[w] = "handling"
    /\ pending[w] = NoMsg
    /\ messages_processed' = [messages_processed EXCEPT ![w] = @ + 1]
    /\ wMsg' = [wMsg EXCEPT ![w] = NoMsg]
    /\ IF SliceContinues(messages_processed[w] + 1, max_messages)
          THEN /\ pc' = [pc EXCEPT ![w] = "slice"]
               /\ UNCHANGED sliceEnd
          ELSE /\ pc' = [pc EXCEPT ![w] = "post"]
               /\ sliceEnd' = [sliceEnd EXCEPT ![w] = "cap"]
    /\ UNCHANGED <<registry, created, mailbox, lock, actor_queue,
                   hive_action_queue, hive_should_stop, message_counter, hivePc,
                   hiveAction, wActor, should_stop, max_messages, pending,
                   sendsAllowed, extrasLeft, handled, droppedLog, registryWriter,
                   wEntry>>

\* a worker that ends on the exception but still posts its
\* "check_queue_actor" action, as a finally clause would (C18 fails with it)
HandlerRaisePost(w) ==
    /\ pc[w] = "handling"
    /\ pending[w] = NoMsg
    /\ extrasLeft > 0
    /\ extrasLeft' = extrasLeft - 1
    /\ hive_action_queue' = Append(hive_action_queue, CheckQueueActorAction(wActor[w]))
    /\ pc' = [pc EXCEPT ![w] = "dead"]
    /\ UNCHANGED <<registry, created, mailbox, lock, actor_queue, hive_should_stop,
                   message_counter, hivePc, hiveAction, wActor, wMsg,
                   messages_processed, should_stop, max_messages, pending,
                   sendsAllowed, handled, droppedLog, registryWriter, wEntry,
                   sliceEnd>>

\* handle_message raises: nothing in process_actor or run catches it, the
\* worker thread ends
HandlerRaise(w) ==
    /\ pc[w] = "handling"
    /\ pending[w] = NoMsg
    /\ extrasLeft > 0
    /\ extrasLeft' = extrasLeft - 1
    /\ pc' = [pc EXCEPT ![w] = "dead"]
    /\ UNCHANGED <<registry, created, mailbox, lock, actor_queue,
                   hive_action_queue, hive_should_stop, message_counter, hivePc,
                   hiveAction, wActor, wMsg, messages_processed, should_stop,
                   max_messages, pending, sendsAllowed, handled, droppedLog,
                   registryWriter, wEntry, sliceEnd>>

\* a worker that decides the re-admission itself and puts the actor on
\* the actor queue (C16 fails with it)
WorkerPostRequeue(w) ==
    /\ pc[w] = "post"
    /\ actor_queue' = IF mailbox[wActor[w]] # <<>>
                         THEN Append(actor_queue, Entry(wActor[w], actor_queue, "worker"))
                         ELSE actor_queue
    /\ pc' = [pc EXCEPT ![w] = "idle"]
    /\ wActor' = [wActor EXCEPT ![w] = None]
    /\ wEntry' = [wEntry EXCEPT ![w] = NoEntry]
    /\ messages_processed' = [messages_processed EXCEPT ![w] = 0]
    /\ sliceEnd' = [sliceEnd EXCEPT ![w] = None]
    /\ UNCHANGED <<registry, created, mailbox, lock, hive_action_queue,
                   hive_should_stop, message_counter, hivePc, hiveAction, wMsg,
                   should_stop, max_messages, pending, sendsAllowed, extrasLeft,
                   handled, droppedLog, registryWriter>>

\* Hive.request_possibly_requeue_actor, called at the end of process_actor:
\* self.hive_action_queue.put(("check_queue_actor", actor)); process_actor
\* returns and its locals are gone
WorkerPost(w) ==
    /\ pc[w] = "post"
    /\ hive_action_queue' = Append(hive_action_queue, CheckQueueActorAction(wActor[w]))
    /\ pc' = [pc EXCEPT ![w] = "idle"]
    /\ wActor' = [wActor EXCEPT ![w] = None]
    /\ wEntry' = [wEntry EXCEPT ![w] = NoEntry]
    /\ messages_processed' = [messages_processed EXCEPT ![w] = 0]
    /\ sliceEnd' = [sliceEnd EXCEPT ![w] = None]
    /\ UNCHANGED <<registry, created, mailbox, lock, actor_queue, hive_should_stop,
                   message_counter, hivePc, hiveAction, wMsg, should_stop,
                   max_messages, pending, sendsAllowed, extrasLeft, handled,
                   droppedLog, registryWriter>>

\* ------------------------------------------------------------ specifications
CallerStep ==
    \/ \E t \in Callers, a \in Actors : SendMessage(t, a)
    \/ \E t \in Callers : SendMessagePut(t)
    \/ \E t \in Callers, a \in Actors : CreateActor(t, a)
    \/ \E t \in Callers, a \in Actors : RemoveActor(t, a)
    \/ SetShouldStop
    \/ PutUnknownAction

HiveStep ==
    \/ HiveStart
    \/ HiveLoop
    \/ HiveGet
    \/ HiveTimeout
    \/ HiveLookup
    \/ HiveRoutePut
    \/ HiveRouteQueueActor
    \/ HiveCheckRequeue
    \/ HiveUnknownAction

WorkerStep(w) ==
    \/ WorkerLoop(w)
    \/ WorkerGet(w)
    \/ WorkerTimeout(w)
    \/ WorkerPop(w)
    \/ WorkerInvoke(w)
    \/ HandlerReturn(w)
    \/ HandlerRaise(w)
    \/ WorkerPost(w)

Next ==
    \/ CallerStep
    \/ HiveStep
    \/ \E w \in Workers : WorkerStep(w)

\* every operation, small runs
Spec == Init /\ [][Next]_vars

\* Scheduling only: the outside caller creates actors and sends, nobody
\* removes, stops or raises; longer runs.
InitSched ==
    /\ Construct
    /\ sendsAllowed = MaxFairSends
    /\ extrasLeft = 0

HiveStepSched ==
    \/ HiveStart
    \/ HiveLoop
    \/ HiveGet
    \/ HiveLookup
    \/ HiveRoutePut
    \/ HiveRouteQueueActor
    \/ HiveCheckRequeue

WorkerStepSched(w) ==
    \/ WorkerLoop(w)
    \/ WorkerGet(w)
    \/ WorkerPop(w)
    \/ WorkerInvoke(w)
    \/ HandlerReturn(w)
    \/ WorkerPost(w)

NextSched ==
    \/ \E a \in Actors : SendMessage(Main, a)
    \/ SendMessagePut(Main)
    \/ \E a \in Actors : CreateActor(Main, a)
    \/ HiveStepSched
    \/ \E w \in Workers : WorkerStepSched(w)

SpecSched == InitSched /\ [][NextSched]_vars

\* Concurrent callers: as SpecSched, and a handler may call send_message,
\* so that sends of a worker thread and of the outside caller interleave.
InitCallers ==
    /\ Construct
    /\ sendsAllowed = MaxFairSends
    /\ extrasLeft = MaxExtra

NextCallers ==
    \/ \E t \in Callers, a \in Actors : SendMessage(t, a)
    \/ \E t \in Callers : SendMessagePut(t)
    \/ \E a \in Actors : CreateActor(Main, a)
    \/ HiveStepSched
    \/ \E w \in Workers : WorkerStepSched(w)

SpecCallers == InitCallers /\ [][NextCallers]_vars

TypeOK ==
    /\ registry \subseteq created
    /\ created \subseteq Actors
    /\ \A a \in Actors : lock[a] \in {None, HiveThread}
    /\ message_counter \in 0..sendsAllowed
    /\ extrasLeft >= 0
    /\ hivePc \in {"new", "loop", "get", "route", "route_lock", "route_queue",
                   "check", "raise", "raised", "done"}
    /\ \A w \in Workers :
          pc[w] \in {"new", "idle", "get", "slice", "popped", "handling",
                     "post", "stopped", "dead"}

\* Thread scheduling is fair: a thread that can take a step eventually does.
\* The outside caller is only required to finish a send_message it started.
FairSched ==
    /\ WF_vars(HiveStepSched)
    /\ \A w \in Workers : WF_vars(WorkerStepSched(w))
    /\ WF_vars(SendMessagePut(Main))

InitLive ==
    /\ Construct
    /\ sendsAllowed = MaxLiveSends
    /\ extrasLeft = 0

\* SpecSched with fair scheduling: no stop signal, no handler failure
LiveSched == InitLive /\ [][NextSched]_vars /\ FairSched

\* Scheduling and removal, fair: as LiveSched, and the outside caller may
\* remove an actor.
InitRemove ==
    /\ Construct
    /\ sendsAllowed = MaxLiveSends
    /\ extrasLeft = MaxExtra

NextRemove ==
    \/ NextSched
    \/ \E a \in Actors : RemoveActor(Main, a)

LiveRemove == InitRemove /\ [][NextRemove]_vars /\ FairSched

\* Scheduling and shutdown: as NextSched, and the outside caller may set
\* Hive.should_stop.
InitStop ==
    /\ Construct
    /\ sendsAllowed = MaxLiveSends
    /\ extrasLeft = 1

HiveStepStop ==
    \/ HiveStepSched
    \/ HiveTimeout

WorkerStepStop(w) ==
    \/ WorkerStepSched(w)
    \/ WorkerTimeout(w)

NextStop ==
    \/ \E a \in Actors : SendMessage(Main, a)
    \/ SendMessagePut(Main)
    \/ \E a \in Actors : CreateActor(Main, a)
    \/ SetShouldStop
    \/ HiveStepStop
    \/ \E w \in Workers : WorkerStepStop(w)

FairStop ==
    /\ WF_vars(HiveStepStop)
    /\ \A w \in Workers : WF_vars(WorkerStepStop(w))
    /\ WF_vars(SendMessagePut(Main))

LiveStop == InitStop /\ [][NextStop]_vars /\ FairStop

\* ------------------------------------------------------------------- claims
InSlice == {"slice", "popped", "handling", "post"}

\* ids of the messages built so far
SentIds == 0..(message_counter - 1)

\* number of places of sequence q that satisfy Test
CountIn(q, Test(_)) == Cardinality({k \in 1..Len(q) : Test(q[k])})

\* C1: for two messages of one calling thread to one actor, handle_message
\* is never invoked for the later one (larger id) while the earlier one has
\* been taken from the mailbox and its handle_message is still to be invoked.
C1_HandlerOrder ==
    \A w \in Workers :
        pc[w] = "popped" =>
            \A m \in handled :
                ~(m.by = wMsg[w].by /\ m.to = wMsg[w].to /\ m.id > wMsg[w].id)

\* C2: no two workers are inside handle_message of the same actor.
C2_OneHandlerPerActor ==
    \A w1, w2 \in Workers :
        (w1 # w2 /\ pc[w1] = "handling" /\ pc[w2] = "handling")
            => wActor[w1] # wActor[w2]

\* where the message with id i is
PlacesOf(i) ==
    LET IsI(m) == m.id = i
        ActionIsI(act) == act.msg.id = i
    IN  Cardinality({t \in Callers : pending[t].id = i})
      + CountIn(hive_action_queue, ActionIsI)
      + (IF hivePc \in {"route", "route_lock"} /\ hiveAction.msg.id = i THEN 1 ELSE 0)
      + Cardinality({a \in Actors : CountIn(mailbox[a], IsI) > 0})
      + Cardinality({w \in Workers : pc[w] = "popped" /\ wMsg[w].id = i})
      + Cardinality({m \in handled : m.id = i})
      + Cardinality({d \in droppedLog : d.msg.id = i})

\* C3: every message built by send_message is in exactly one place: not yet
\* put, in the action queue, being routed, once in the mailbox of its target,
\* taken by one worker, passed to handle_message, or dropped by a failed
\* registry lookup; in particular a message taken from a mailbox has not been
\* handled before.
C3_NoDuplicationNoDrop ==
    /\ \A i \in SentIds : PlacesOf(i) = 1
    /\ \A a \in Actors : \A k \in 1..Len(mailbox[a]) :
          /\ mailbox[a][k].to = a
          /\ \A j \in 1..Len(mailbox[a]) : mailbox[a][j] = mailbox[a][k] => j = k
    /\ \A d \in droppedLog : ~d.registered
    /\ \A w \in Workers : pc[w] = "popped" => wMsg[w] \notin handled

\* a message was handled and another one was dropped
C3_Witness ==
    /\ handled # {}
    /\ droppedLog # {}

\* ids of the messages of a run of the fair specifications
LiveIds == 0..(MaxLiveSends - 1)

Built(i) == i < message_counter
Routed(i) == hivePc = "route_lock" /\ hiveAction.msg.id = i
Handled(i) == \E m \in handled : m.id = i
Dropped(i) == \E d \in droppedLog : d.msg.id = i

\* C4: under fair scheduling, with no stop signal and no handler failure,
\* a message whose registry lookup succeeded is eventually passed to
\* handle_message, and every message built by send_message is eventually
\* handled or dropped by a failed lookup.
C4_EventualDelivery ==
    \A i \in LiveIds :
        /\ Routed(i) ~> Handled(i)
        /\ Built(i) ~> (Handled(i) \/ Dropped(i))

\* a message is being handled in a slice that started from a re-admission
C4_Witness ==
    \E w \in Workers :
        /\ pc[w] = "handling"
        /\ wEntry[w].via = "check_queue_actor"

\* C5: the step of the control loop that finds the target of a
\* "queue_message" action missing from the registry drops the message,
\* changes no mailbox, no actor_queue entry, no lock and no worker, and
\* leaves the control loop in its loop; after such a drop a message whose
\* target is registered is still appended to the target's mailbox.
C5_RoutingFailureIsolation ==
    [][ /\ (hivePc = "route" /\ hivePc' # "route"
                             /\ hiveAction.msg.to \notin registry) =>
            /\ hivePc' = "loop"
            /\ mailbox' = mailbox
            /\ actor_queue' = actor_queue
            /\ lock' = lock
            /\ pc' = pc
            /\ should_stop' = should_stop
            /\ \E d \in droppedLog' : d.msg = hiveAction.msg
        /\ (droppedLog # {} /\ hivePc = "route" /\ hivePc' # "route"
                            /\ hiveAction.msg.to \in registry) =>
            hivePc' = "route_lock"
        /\ (droppedLog # {} /\ hivePc = "route_lock" /\ hivePc' # "route_lock") =>
            mailbox' = [mailbox EXCEPT
                          ![hiveAction.msg.to] = Append(@, hiveAction.msg)]
      ]_vars

\* after a drop, a message the same thread sent later is in a mailbox
C5_Witness ==
    \E d \in droppedLog : \E a \in Actors : \E k \in 1..Len(mailbox[a]) :
        /\ mailbox[a][k].by = d.msg.by
        /\ mailbox[a][k].id > d.msg.id

\* the entry a step has put at the tail of actor_queue
PutEntry == actor_queue'[Len(actor_queue')]

\* C6: the step that processes "check_queue_actor" for actor A needs A's
\* lock to be free, and puts A on actor_queue if A's mailbox is not empty
\* and leaves actor_queue as it is otherwise; any step that puts an entry on
\* actor_queue is such a step or the queue_actor of a "queue_message".
C6_ReadmissionDecision ==
    [][ /\ (hivePc = "check" /\ hivePc' # "check") =>
            /\ lock[hiveAction.actor] = None
            /\ IF mailbox[hiveAction.actor] # <<>>
                  THEN /\ Len(actor_queue') = Len(actor_queue) + 1
                       /\ PutEntry.actor = hiveAction.actor
                  ELSE actor_queue' = actor_queue
        /\ Len(actor_queue') > Len(actor_queue) =>
            \/ /\ hivePc = "check"
               /\ mailbox[hiveAction.actor] # <<>>
               /\ PutEntry.actor = hiveAction.actor
            \/ /\ hivePc = "route_queue"
               /\ PutEntry.actor = hiveAction.msg.to
      ]_vars

\* a re-admitted actor is on actor_queue, and some check has found a mailbox
\* empty (an action for an actor with an empty mailbox and no entry was processed)
C6_Witness ==
    /\ \E k \in 1..Len(actor_queue) : actor_queue[k].via = "check_queue_actor"

C8_BoundedSlice ==
    \A w \in Workers :
        /\ max_messages # Unbounded =>
              /\ messages_processed[w] <= max_messages
              /\ pc[w] \in {"popped", "handling"} => messages_processed[w] < max_messages
        /\ pc[w] = "post" =>
              \/ sliceEnd[w] = "empty"
              \/ /\ sliceEnd[w] = "cap"
                 /\ max_messages # Unbounded
                 /\ messages_processed[w] = max_messages

\* a slice has ended at a cap of two messages
C8_Witness ==
    \E w \in Workers :
        /\ pc[w] = "post"
        /\ sliceEnd[w] = "cap"
        /\ messages_processed[w] = 2

C10_CooperativeShutdown ==
    /\ hive_should_stop ~> (hivePc = "done" /\ \A w \in Workers : should_stop[w])
    /\ hive_should_stop ~> (\A w \in Workers : pc[w] = "stopped")
    /\ [][ \A w \in Workers :
            /\ (pc[w] # "stopped" /\ pc'[w] = "stopped") => pc[w] = "idle"
            /\ (pc[w] \in InSlice /\ pc'[w] \notin InSlice) =>
                  /\ pc[w] = "post"
                  /\ hive_action_queue' =
                        Append(hive_action_queue, CheckQueueActorAction(wActor[w]))
            /\ (pc[w] = "handling" /\ pc'[w] # "handling") =>
                  messages_processed'[w] = messages_processed[w] + 1
         ]_vars

\* the control loop has ended and a worker has stopped, while the other
\* worker, its flag set, is still inside a handler
C10_Witness ==
    /\ hivePc = "done"
    /\ \E w \in Workers : pc[w] = "stopped"
    /\ \E w \in Workers : pc[w] = "handling" /\ should_stop[w]

\* every message there is: built and not yet put, in the action queue, being
\* routed, in a mailbox, taken by a worker, handled or dropped
AllMessages ==
    ({pending[t] : t \in Callers}
       \cup {hive_action_queue[k].msg : k \in 1..Len(hive_action_queue)}
       \cup {hiveAction.msg}
       \cup UNION {{mailbox[a][k] : k \in 1..Len(mailbox[a])} : a \in Actors}
       \cup {wMsg[w] : w \in Workers}
       \cup handled
       \cup {d.msg : d \in droppedLog}) \ {NoMsg}

\* C11: two different messages never have the same id string; the ids in
\* use are those of the counter values handed out so far; a step that hands
\* out a counter value raises the counter by exactly one and gives the new
\* message, of the one calling thread, the old value, which no message has.
C11_MessageIdUniqueness ==
    /\ [](\A m1, m2 \in AllMessages :
              MessageId(m1.id) = MessageId(m2.id) => m1 = m2)
    /\ [](\A m \in AllMessages : m.id \in SentIds)
    /\ [][ message_counter' # message_counter =>
              /\ message_counter' = message_counter + 1
              /\ \A m \in AllMessages : m.id < message_counter
              /\ \E t \in Callers :
                    /\ pending[t] = NoMsg
                    /\ pending'[t].id = message_counter
                    /\ \A u \in Callers \ {t} : pending'[u] = pending[u]
         ]_vars

\* the outside caller and a worker inside a handler are both between the
\* get-and-increment and the put of a send_message, the worker's counter
\* value being the smaller one
C11_Witness ==
    \E w \in Workers :
        /\ pending[w] # NoMsg
        /\ pending[Main] # NoMsg
        /\ pending[w].id < pending[Main].id


\* C12: a slice that starts on a backlog (more than max_messages messages in
\* the actor's mailbox, no further message to arrive) handles exactly
\* max_messages of them, and while it runs no other worker takes a message
\* of that actor: the rest is handled in later slices only.
C12_SliceSplit ==
    \A w \in Workers :
        wEntry[w].backlogged =>
            /\ pc[w] = "post" => messages_processed[w] = max_messages
            /\ \A v \in Workers \ {w} :
                  ~(pc[v] \in {"popped", "handling"} /\ wActor[v] = wActor[w])

\* C13: every actor that has an entry on actor_queue has a message in its
\* mailbox.
C13_RunQueueContent ==
    \A k \in 1..Len(actor_queue) : mailbox[actor_queue[k].actor] # <<>>

\* C14: the action queue is a FIFO (a put adds at the tail, the control loop
\* takes the head, as the action it processes next); a mailbox changes only
\* by the control loop appending the message of the "queue_message" action
\* it is processing, or by a worker in a slice on that actor taking the head.
\* So the mailbox order, and the order of the pops, is the order in which
\* the control loop processed the routing actions.
C14_TotalOrder ==
    [][ /\ hive_action_queue' # hive_action_queue =>
            \/ /\ hivePc = "get"
               /\ hive_action_queue # <<>>
               /\ hiveAction' = Head(hive_action_queue)
               /\ hive_action_queue' = Tail(hive_action_queue)
            \/ /\ Len(hive_action_queue') = Len(hive_action_queue) + 1
               /\ SubSeq(hive_action_queue', 1, Len(hive_action_queue)) = hive_action_queue
               /\ hiveAction' = hiveAction
        /\ (hiveAction' # hiveAction /\ hiveAction' # NoAction) =>
            /\ hive_action_queue # <<>>
            /\ hiveAction' = Head(hive_action_queue)
        /\ \A a \in Actors : mailbox'[a] # mailbox[a] =>
            \/ /\ hivePc = "route_lock"
               /\ hiveAction.msg.to = a
               /\ mailbox'[a] = Append(mailbox[a], hiveAction.msg)
            \/ /\ mailbox[a] # <<>>
               /\ mailbox'[a] = Tail(mailbox[a])
               /\ \E w \in Workers :
                     /\ pc[w] = "slice"
                     /\ wActor[w] = a
                     /\ wMsg'[w] = Head(mailbox[a])
      ]_vars

\* two messages of two callers (the outside caller and a worker inside a
\* handler) are in one mailbox, the one with the larger counter value first:
\* its routing action was processed first
C14_Witness ==
    \E a \in Actors :
        /\ Len(mailbox[a]) >= 2
        /\ mailbox[a][1].by # mailbox[a][2].by
        /\ mailbox[a][1].id > mailbox[a][2].id

\* C15: a mailbox lock is held exactly while the control loop is between the
\* put and the queue_actor of queue_message for that actor, by the control
\* loop; an append happens in the step in which the control loop takes the
\* free lock; a pop happens in a step of a worker that finds the lock free
\* and leaves it free; no worker inside handle_message holds a lock, so the
\* control loop about to append to that actor's mailbox finds the lock free.
C15_GuardDiscipline ==
    /\ [](\A a \in Actors :
             /\ lock[a] \in {None, HiveThread}
             /\ lock[a] = HiveThread <=>
                   (hivePc = "route_queue" /\ hiveAction.msg.to = a))
    /\ [](\A w \in Workers : pc[w] = "handling" =>
             /\ \A a \in Actors : lock[a] # w
             /\ (hivePc = "route_lock" /\ hiveAction.msg.to = wActor[w]) =>
                   CanAcquire(lock[wActor[w]]))
    /\ [][ \A a \in Actors :
             /\ Len(mailbox'[a]) > Len(mailbox[a]) =>
                   /\ lock[a] = None
                   /\ lock'[a] = HiveThread
                   /\ hivePc = "route_lock"
             /\ Len(mailbox'[a]) < Len(mailbox[a]) =>
                   /\ lock[a] = None
                   /\ lock'[a] = None
                   /\ \E w \in Workers : pc[w] = "slice" /\ pc'[w] = "popped"
         ]_vars

\* the control loop holds the lock of an actor, having appended a message
\* to its mailbox, while a worker is inside that actor's handle_message
C15_Witness ==
    \E w \in Workers :
        /\ pc[w] = "handling"
        /\ lock[wActor[w]] = HiveThread
        /\ mailbox[wActor[w]] # <<>>

\* number of "check_queue_actor" actions for actor a in the action queue q
ChecksFor(q, a) ==
    LET IsCheck(act) == act.type = "check_queue_actor" /\ act.actor = a
    IN  CountIn(q, IsCheck)

\* the actors of the entries of an actor queue, in order
ActorsOf(q) == [k \in 1..Len(q) |-> q[k].actor]

\* C16: a worker leaves a slice, other than by an exception, only by the
\* step that puts ("check_queue_actor", actor of the slice) on the action
\* queue, also when it handled no message; "check_queue_actor" actions are
\* put by that step only, one per slice; a step that puts an entry on
\* actor_queue is a step of the control loop and of no worker; a worker
\* changes actor_queue only by taking its head.
C16_CentralAdmission ==
    [][ /\ \A w \in Workers :
              (pc[w] \in InSlice /\ pc'[w] \notin InSlice /\ pc'[w] # "dead") =>
                  /\ pc[w] = "post"
                  /\ pc'[w] = "idle"
                  /\ hive_action_queue' =
                        Append(hive_action_queue, CheckQueueActorAction(wActor[w]))
        /\ \A a \in Actors :
              ChecksFor(hive_action_queue', a) > ChecksFor(hive_action_queue, a) =>
                  /\ ChecksFor(hive_action_queue', a) = ChecksFor(hive_action_queue, a) + 1
                  /\ \E w \in Workers :
                        pc[w] = "post" /\ wActor[w] = a /\ pc'[w] = "idle"
        /\ Len(actor_queue') > Len(actor_queue) =>
              /\ pc' = pc
              /\ hivePc \in {"route_queue", "check"}
              /\ hivePc' = "loop"
        /\ pc' # pc =>
              \/ actor_queue' = actor_queue
              \/ /\ actor_queue # <<>>
                 /\ ActorsOf(actor_queue') = Tail(ActorsOf(actor_queue))
                 /\ \E w \in Workers :
                       /\ pc[w] = "get"
                       /\ wActor'[w] = Head(actor_queue).actor
      ]_vars

\* a slice that handled no message has ended and is about to post its
\* action, while the action of an earlier slice on the same actor is in the
\* action queue
C16_Witness ==
    \E w \in Workers :
        /\ pc[w] = "post"
        /\ sliceEnd[w] = "empty"
        /\ messages_processed[w] = 0
        /\ ChecksFor(hive_action_queue, wActor[w]) > 0

KnownActionTypes == {"queue_message", "check_queue_actor"}

\* C17: when the control loop takes an action whose tag is neither
\* "queue_message" nor "check_queue_actor" it goes to the raise, and from
\* there it ends with every worker's should_stop set; in these two steps it
\* changes no mailbox and no actor_queue entry; from the raise on it takes
\* no action from the action queue (what is put there stays), puts no
\* actor on actor_queue and appends to no mailbox.
C17_UnknownActionFatal ==
    /\ [](hivePc \in {"raise", "raised"} => hiveAction.type \notin KnownActionTypes)
    /\ [](hivePc = "raised" => \A w \in Workers : should_stop[w])
    /\ [][ /\ (hiveAction' # hiveAction /\ hiveAction' # NoAction
                  /\ hiveAction'.type \notin KnownActionTypes) =>
              /\ hivePc' = "raise"
              /\ mailbox' = mailbox
              /\ actor_queue' = actor_queue
              /\ should_stop' = should_stop
           /\ (hivePc = "raise" /\ hivePc' # "raise") =>
              /\ hivePc' = "raised"
              /\ \A w \in Workers : should_stop'[w]
              /\ mailbox' = mailbox
              /\ actor_queue' = actor_queue
              /\ hive_action_queue' = hive_action_queue
           /\ hivePc \in {"raise", "raised"} =>
              /\ hivePc' \in {"raise", "raised"}
              /\ hiveAction' = hiveAction
              /\ Len(hive_action_queue') >= Len(hive_action_queue)
              /\ SubSeq(hive_action_queue', 1, Len(hive_action_queue)) = hive_action_queue
              /\ Len(actor_queue') <= Len(actor_queue)
              /\ \A a \in Actors : Len(mailbox'[a]) <= Len(mailbox[a])
         ]_vars

\* the control loop has ended by UnknownHiveAction with a "queue_message"
\* action left in the action queue, and a worker has stopped
C17_Witness ==
    /\ hivePc = "raised"
    /\ \E k \in 1..Len(hive_action_queue) : hive_action_queue[k].type = "queue_message"
    /\ \E w \in Workers : pc[w] = "stopped"

\* C18: a worker ends by an exception only from inside handle_message, and
\* that step changes no mailbox, no queue, no other worker and nothing of
\* the control loop (no "check_queue_actor" action is posted); the message
\* it was handling is in no mailbox and no queue and with no other worker;
\* the worker takes no step afterwards.
C18_HandlerFailure ==
    /\ [](\A w \in Workers : pc[w] = "dead" =>
             /\ wMsg[w] \in handled
             /\ PlacesOf(wMsg[w].id) = 1
             /\ \A a \in Actors : \A k \in 1..Len(mailbox[a]) : mailbox[a][k] # wMsg[w]
             /\ \A v \in Workers \ {w} : wMsg[v] # wMsg[w])
    /\ [][ \A w \in Workers :
             /\ (pc[w] # "dead" /\ pc'[w] = "dead") =>
                   /\ pc[w] = "handling"
                   /\ \A v \in Workers \ {w} : pc'[v] = pc[v]
                   /\ mailbox' = mailbox
                   /\ actor_queue' = actor_queue
                   /\ hive_action_queue' = hive_action_queue
                   /\ hivePc' = hivePc
                   /\ hiveAction' = hiveAction
                   /\ should_stop' = should_stop
                   /\ hive_should_stop' = hive_should_stop
             /\ pc[w] = "dead" =>
                   /\ pc'[w] = "dead"
                   /\ wActor'[w] = wActor[w]
                   /\ wMsg'[w] = wMsg[w]
                   /\ ChecksFor(hive_action_queue', wActor[w])
                         <= ChecksFor(hive_action_queue, wActor[w])
                      \/ \E v \in Workers \ {w} : pc[v] = "post"
         ]_vars

\* a worker has ended by an exception; the other worker is inside the
\* handler of the same actor with a later message
C18_Witness ==
    \E w, v \in Workers :
        /\ pc[w] = "dead"
        /\ pc[v] = "handling"
        /\ wActor[v] = wActor[w]
        /\ wMsg[v].id > wMsg[w].id

\* no worker has ended by an exception
NoFailure == \A w \in Workers : pc[w] # "dead"

\* actor a has an entry on actor_queue, or a worker is in a slice on it and
\* has not posted yet, or a "check_queue_actor" action for it is in the
\* action queue
Covered(a) ==
    \/ \E k \in 1..Len(actor_queue) : actor_queue[k].actor = a
    \/ \E w \in Workers : pc[w] \in InSlice /\ wActor[w] = a
    \/ ChecksFor(hive_action_queue, a) > 0

\* the action queue and actor_queue are empty and no worker is in a slice
Quiet ==
    /\ hive_action_queue = <<>>
    /\ actor_queue = <<>>
    /\ \A w \in Workers : pc[w] \notin InSlice

\* C19 as stated: with no handler failure, in every state an actor with a
\* message in its mailbox is covered, and when all is quiet every mailbox is
\* empty.
C19_NoLostWakeup ==
    NoFailure =>
        /\ \A a \in Actors : mailbox[a] # <<>> => Covered(a)
        /\ Quiet => \A a \in Actors : mailbox[a] = <<>>

\* the control loop is inside queue_message for actor a, holding a's lock,
\* between the put on the mailbox and queue_actor
BeingAdmitted(a) ==
    /\ hivePc = "route_queue"
    /\ hiveAction.msg.to = a
    /\ lock[a] = HiveThread

\* C19: with no handler failure, in every state an actor with a message in
\* its mailbox is covered or is being admitted by the control loop (which
\* holds the actor's lock and is about to put it on actor_queue); when all
\* is quiet and the control loop is not inside queue_message, every mailbox
\* is empty.
C19_NoLostWakeupOutsideRouting ==
    NoFailure =>
        /\ \A a \in Actors : mailbox[a] # <<>> => (Covered(a) \/ BeingAdmitted(a))
        /\ (Quiet /\ hivePc # "route_queue") => \A a \in Actors : mailbox[a] = <<>>

\* after a first message has been handled, the control loop has put a
\* message in the mailbox of an actor that has no entry on actor_queue, no
\* worker in a slice and no action, and is about to put it on actor_queue
C19_Witness ==
    \E a \in Actors :
        /\ NoFailure
        /\ handled # {}
        /\ mailbox[a] # <<>>
        /\ BeingAdmitted(a)
        /\ ~Covered(a)

\* actor a has been created and removed
Removed(a) == a \in created /\ a \notin registry

\* C20: the step that removes an actor from the registry changes nothing
\* else: no mailbox, no actor_queue entry, no action, no lock, nothing of a
\* worker or of the control loop.  Under fair scheduling a message whose
\* registry lookup succeeded is handled, whether or not its target is
\* removed afterwards; a lookup made after the removal drops the message.
C20_RemovalKeepsDeliveredWork ==
    /\ [][ /\ (registry' # registry /\ registry' \subseteq registry) =>
               /\ Cardinality(registry \ registry') = 1
               /\ mailbox' = mailbox
               /\ actor_queue' = actor_queue
               /\ hive_action_queue' = hive_action_queue
               /\ lock' = lock
               /\ pc' = pc
               /\ wActor' = wActor
               /\ wMsg' = wMsg
               /\ messages_processed' = messages_processed
               /\ hivePc' = hivePc
               /\ hiveAction' = hiveAction
               /\ handled' = handled
               /\ droppedLog' = droppedLog
           /\ (hivePc = "route" /\ hivePc' # "route" /\ Removed(hiveAction.msg.to)) =>
               /\ hivePc' = "loop"
               /\ mailbox' = mailbox
               /\ actor_queue' = actor_queue
               /\ \E d \in droppedLog' : d.msg = hiveAction.msg
         ]_vars
    /\ \A i \in LiveIds : Routed(i) ~> Handled(i)

\* a worker has taken a message of a removed actor from its mailbox and is
\* about to pass it to handle_message; a later message to that actor has
\* been dropped
C20_Witness ==
    \E w \in Workers : \E d \in droppedLog :
        /\ pc[w] = "popped"
        /\ Removed(wActor[w])
        /\ d.msg.to = wActor[w]
        /\ d.msg.id > wMsg[w].id

====
